---- MODULE Spec2Model ----
(***************************************************************************)
(* Model of app.py (LUMINAOPTIX): the two request handlers analyze_problem *)
(* and calculate, and the two solvers calculate_snell and calculate_lens.  *)
(*                                                                         *)
(* Numbers.  A Python float that the program only adds, divides, compares  *)
(* and prints is an exact rational [n |-> numerator, d |-> denominator]    *)
(* in lowest terms with d > 0.  The values that go through the math        *)
(* library (radians, sin, asin, degrees) are fixed-point integers with     *)
(* eight decimals (ONE = 10^8 stands for 1.0); angles in degrees that come *)
(* back from it are rationals over 10^6.  All intermediate values stay     *)
(* below 2^31.                                                             *)
(***************************************************************************)
EXTENDS Integers, Sequences, FiniteSets, TLC

VARIABLES pc, request, response, call

vars == <<pc, request, response, call>>

----------------------------------------------------------------------------
(* Python values *)

\* None: an absent argument, a JSON null, dict.get without a default
None == [none |-> TRUE]

\* a raised exception, by its class
Fault(kind) == [fault |-> kind]

IsFault(v) == "fault" \in DOMAIN v

\* a str value
Str(s) == [str |-> s]

IsStr(v) == "str" \in DOMAIN v

\* a float (or int) value
IsNum(v) == "n" \in DOMAIN v

Abs(i) == IF i < 0 THEN -i ELSE i

Sign(i) == IF i < 0 THEN -1 ELSE IF i > 0 THEN 1 ELSE 0

RECURSIVE Gcd(_, _)
Gcd(a, b) == IF b = 0 THEN a ELSE Gcd(b, a % b)

\* the rational n/d in lowest terms, d > 0
Rat(n, d) ==
    LET g == Gcd(Abs(n), Abs(d))
        s == IF d < 0 THEN -1 ELSE 1
    IN  [n |-> s * (n \div g), d |-> s * (d \div g)]

Num(i) == [n |-> i, d |-> 1]

\* a binary arithmetic operator on a and b: an exception of an operand goes
\* on (the first one), None and str operands are a TypeError, and numbers
\* give value
Arith(a, b, value) ==
    IF IsFault(a) THEN a
    ELSE IF IsFault(b) THEN b
    ELSE IF ~IsNum(a) \/ ~IsNum(b) THEN Fault("TypeError")
    ELSE value

\* Div with a zero divisor answered by 0.0 instead of raising
Div_defaulted(a, b) ==
    Arith(a, b, IF b.n = 0 THEN Num(0) ELSE Rat(a.n * b.d, a.d * b.n))

\* a / b
Div(a, b) ==
    Arith(a, b, IF b.n = 0 THEN Fault("ZeroDivisionError")
                ELSE Rat(a.n * b.d, a.d * b.n))

\* a + b
Add(a, b) == Arith(a, b, Rat(a.n * b.d + b.n * a.d, a.d * b.d))

\* a - b
Sub(a, b) == Arith(a, b, Rat(a.n * b.d - b.n * a.d, a.d * b.d))

----------------------------------------------------------------------------
(* Fixed-point arithmetic of the math library *)

ONE == 100000000

HALF == 10000

\* x * y / ONE for |x|, |y| below 2^31 / HALF, by halves so that no product
\* leaves 32 bits
FMul(x, y) ==
    LET a  == Abs(x)
        b  == Abs(y)
        ah == a \div HALF
        al == a % HALF
        bh == b \div HALF
        bl == b % HALF
        m  == ah * bh + ((ah * bl + al * bh) \div HALF) + ((al * bl) \div ONE)
    IN  Sign(x) * Sign(y) * m

\* the rational r as a fixed-point number, by long division in two steps
ToFixed(r) ==
    LET a  == Abs(r.n)
        q0 == a \div r.d
        r0 == a % r.d
        q1 == (r0 * HALF) \div r.d
        r1 == (r0 * HALF) % r.d
        q2 == (r1 * HALF) \div r.d
    IN  Sign(r.n) * (q0 * ONE + q1 * HALF + q2)

\* the rational r in millionths, rounded to the nearest
Micro(r) ==
    LET a  == Abs(r.n)
        q0 == a \div r.d
        r0 == a % r.d
        q1 == (r0 * 1000) \div r.d
        r1 == (r0 * 1000) % r.d
        q2 == (r1 * 1000) \div r.d
        r2 == (r1 * 1000) % r.d
        up == IF 2 * r2 >= r.d THEN 1 ELSE 0
    IN  q0 * 1000000 + q1 * 1000 + q2 + up

\* math.radians of an angle in degrees (a rational), via micro-degrees
Radians(deg) == FMul(Sign(deg.n) * Micro(deg), 174532925)

\* pi/2 and pi/4 in fixed point
PI_2 == 157079633

PI_4 == 78539816

\* a / b rounded towards zero
TDiv(a, b) == Sign(a) * (Abs(a) \div b)

\* t - t*y2/(i(i+1)) + t*y2^2/(i(i+1)(i+2)(i+3)) - ...: the Taylor series of
\* sin (t = y, i = 2) and of cos (t = 1, i = 1), to the term of order 13
RECURSIVE Series(_, _, _)
Series(t, y2, i) ==
    IF i > 13 \/ t = 0 THEN t
    ELSE t + Series(-TDiv(FMul(t, y2), i * (i + 1)), y2, i + 2)

\* math.sin of x radians: x is reduced by a multiple k of pi/2 to y in
\* [-pi/4, pi/4], and the quadrant k mod 4 selects +-sin(y) or +-cos(y)
Sin(x) ==
    LET k  == (x + PI_4) \div PI_2
        y  == x - k * PI_2
        y2 == FMul(y, y)
        q  == k % 4
    IN  CASE q = 0 -> Series(y, y2, 2)
          [] q = 1 -> Series(ONE, y2, 1)
          [] q = 2 -> -Series(y, y2, 2)
          [] q = 3 -> -Series(ONE, y2, 1)


\* the largest angle in [lo, hi) whose sine is at most x (hi - lo halves
\* steps times)
RECURSIVE Bisect(_, _, _, _)
Bisect(lo, hi, x, steps) ==
    IF steps = 0 \/ hi - lo <= 1 THEN lo
    ELSE LET mid == (lo + hi) \div 2
         IN  IF Sin(mid) <= x THEN Bisect(mid, hi, x, steps - 1)
                              ELSE Bisect(lo, mid, x, steps - 1)

\* the domain of math.asin: outside it math.asin raises ValueError
InAsinDomain(x) == Abs(x) <= ONE

\* math.asin of x in [-1, 1], in radians: asin is odd and asin(1) = pi/2
ASin(x) ==
    IF Abs(x) = ONE THEN Sign(x) * PI_2
    ELSE Sign(x) * Bisect(0, PI_2, Abs(x), 30)

\* math.degrees of x radians: a rational number of degrees over 10^6
Degrees(x) == Rat(FMul(x, 57295780), 1000000)
----------------------------------------------------------------------------
(* Text.  A str is a sequence of tokens: single characters, and literal     *)
(* pieces of the program's own messages, none of which holds a digit, a    *)
(* dot, a minus sign or a line break.                                      *)

Digits == <<"0", "1", "2", "3", "4", "5", "6", "7", "8", "9">>

IsDigit(c) == \E i \in 1..10 : Digits[i] = c

DigitVal(c) == (CHOOSE i \in 1..10 : Digits[i] = c) - 1

Upper ==
    <<"A", "B", "C", "D", "E", "F", "G", "H", "I", "J", "K", "L", "M",
      "N", "O", "P", "Q", "R", "S", "T", "U", "V", "W", "X", "Y", "Z">>

Lowercase ==
    <<"a", "b", "c", "d", "e", "f", "g", "h", "i", "j", "k", "l", "m",
      "n", "o", "p", "q", "r", "s", "t", "u", "v", "w", "x", "y", "z">>

\* str.lower()
lower(s) ==
    [i \in 1..Len(s) |->
        IF \E k \in 1..26 : Upper[k] = s[i]
        THEN Lowercase[CHOOSE k \in 1..26 : Upper[k] = s[i]]
        ELSE s[i]]

\* s[i:i+len(w)] == w
HasAt(s, i, w) ==
    /\ i + Len(w) - 1 <= Len(s)
    /\ \A k \in 1..Len(w) : s[i + k - 1] = w[k]

\* w in s
Contains(s, w) == \E i \in 1..Len(s) : HasAt(s, i, w)

\* the decimal digits of the natural number i
RECURSIVE NatChars(_)
NatChars(i) ==
    IF i < 10 THEN <<Digits[i + 1]>>
    ELSE Append(NatChars(i \div 10), Digits[(i % 10) + 1])

\* f"{r:.6f}": the sign of a negative number, the integer part, a dot and
\* six decimals
Format6(r) ==
    LET m    == Micro(r)
        frac == NatChars(1000000 + (m % 1000000))
    IN  (IF r.n < 0 THEN <<"-">> ELSE <<>>)
            \o NatChars(m \div 1000000) \o <<".">> \o SubSeq(frac, 2, 7)

\* the value of a sequence of digits after the value acc
RECURSIVE DigitsVal(_, _)
DigitsVal(s, acc) ==
    IF s = <<>> THEN acc ELSE DigitsVal(Tail(s), 10 * acc + DigitVal(Head(s)))

RECURSIVE Pow10(_)
Pow10(k) == IF k = 0 THEN 1 ELSE 10 * Pow10(k - 1)

\* float(s) of a str s: an optional minus sign, digits with at most one dot
\* and at least one digit; anything else is a ValueError
float(s) ==
    LET neg    == s # <<>> /\ Head(s) = "-"
        body   == IF neg THEN Tail(s) ELSE s
        dots   == {i \in 1..Len(body) : body[i] = "."}
        dot    == IF dots = {} THEN Len(body) + 1 ELSE CHOOSE i \in dots : TRUE
        digits == SelectSeq(body, IsDigit)
        valid  == /\ Cardinality(dots) <= 1
                  /\ digits # <<>>
                  /\ Len(digits) + Cardinality(dots) = Len(body)
    IN  IF ~valid THEN Fault("ValueError")
        ELSE Rat((IF neg THEN -1 ELSE 1) * DigitsVal(digits, 0),
                 Pow10(Len(body) - dot + (IF dots = {} THEN 1 ELSE 0)))

\* the end of the longest run of characters of class cls from position i on
\* (i - 1 when s[i] is not in cls)
RECURSIVE RunEnd(_, _, _)
RunEnd(s, i, cls) ==
    IF i <= Len(s) /\ s[i] \in cls THEN RunEnd(s, i + 1, cls) ELSE i - 1

\* re.search(r'[cls]+', s).group(): the first longest run of characters of
\* cls in s, None when there is none (re.search returns None)
SearchRun(s, cls) ==
    LET starts == {i \in 1..Len(s) : s[i] \in cls}
        i      == CHOOSE k \in starts : \A j \in starts : k <= j
    IN  IF starts = {} THEN None ELSE [group |-> SubSeq(s, i, RunEnd(s, i, cls))]

DigitSet == {Digits[i] : i \in 1..10}

Space == {" "}

\* the match of  <name>\s*[=:]\s*(\d+\.?\d*)  starting at position i of s:
\* its group 1, or <<>> when it does not match there
MatchAt(s, i, name) ==
    LET a == RunEnd(s, i + Len(name), Space) + 1
        b == RunEnd(s, a + 1, Space) + 1
        c == RunEnd(s, b, DigitSet)
        d == IF c + 1 <= Len(s) /\ s[c + 1] = "." THEN c + 1 ELSE c
        e == RunEnd(s, d + 1, DigitSet)
    IN  IF /\ HasAt(s, i, name)
           /\ a <= Len(s) /\ s[a] \in {"=", ":"}
           /\ c >= b
        THEN SubSeq(s, b, e)
        ELSE <<>>

\* re.search of the pattern above for the alternatives names: group 1 of
\* the leftmost match, <<>> when the pattern matches nowhere
Search(s, names) ==
    LET hits == {i \in 1..Len(s) : \E w \in names : MatchAt(s, i, w) # <<>>}
        i    == CHOOSE k \in hits : \A j \in hits : k <= j
        w    == CHOOSE v \in names : MatchAt(s, i, v) # <<>>
    IN  IF hits = {} THEN <<>> ELSE MatchAt(s, i, w)
----------------------------------------------------------------------------
(* The solvers *)

\* str(v) of a value shown inside a message: one token, different for
\* different values
Show(v) == ToString(v)

\* '\n'.join(lines)
RECURSIVE Join(_)
Join(lines) ==
    IF lines = <<>> THEN <<>>
    ELSE IF Len(lines) = 1 THEN lines[1]
    ELSE lines[1] \o <<"\n">> \o Join(Tail(lines))

\* the position of the first line break of s, 0 when it has none
FirstBreak(s) ==
    IF \E i \in 1..Len(s) : s[i] = "\n"
    THEN CHOOSE i \in 1..Len(s) : s[i] = "\n" /\ \A j \in 1..(i - 1) : s[j] # "\n"
    ELSE 0

\* s.split('\n')
RECURSIVE Split(_)
Split(s) ==
    IF FirstBreak(s) = 0 THEN <<s>>
    ELSE <<SubSeq(s, 1, FirstBreak(s) - 1)>>
             \o Split(SubSeq(s, FirstBreak(s) + 1, Len(s)))

\* the Given summary of calculate_snell
SnellGiven(n1, n2, theta1) ==
    <<"n₁ = ", Show(n1), ", n₂ = ", Show(n2), ", θ₁ = ", Show(theta1), "°">>

\* the two derivation lines both branches of calculate_snell start with
SnellSteps(n1, n2, theta1, ratio, sin_theta1, sin_theta2) ==
    << <<"Step 1: sinθ₂ = (n₁ / n₂) × sinθ₁ = ", Show(n1), Show(n2),
         Show(theta1)>>,
       <<"Step 2: sinθ₂ = ", Show(ratio), Show(sin_theta1), Show(sin_theta2)>> >>

\* the branch condition with >= for >
IsTIR_inclusive(sin_theta2) == Abs(sin_theta2) >= ONE

\* the branch condition of calculate_snell: abs(sin_theta2) > 1
IsTIR(sin_theta2) == Abs(sin_theta2) > ONE

\* the critical ratio upside down: n1/n2
CriticalRatio_swapped(n1, n2) == Div(n1, n2)

\* the argument of the critical-angle arcsine: n2/n1
CriticalRatio(n1, n2) == Div(n2, n1)

\* math.degrees(math.asin(x)) of a rational x or of the exception that
\* computing x raised: a ValueError (math domain error) outside [-1, 1]
AsinDegrees(x) ==
    IF IsFault(x) THEN x
    ELSE IF ~InAsinDomain(ToFixed(x)) THEN Fault("ValueError")
    ELSE Degrees(ASin(ToFixed(x)))

\* the return of the total-internal-reflection branch
TirRecord(n1, n2, theta1, steps, sin_theta2, critical_angle) ==
    IF IsFault(critical_angle) THEN critical_angle
    ELSE [Detected |-> "Refraction Problem - Total Internal Reflection",
          Given |-> SnellGiven(n1, n2, theta1),
          Formula |-> "n₁ × sinθ₁ = n₂ × sinθ₂",
          Steps |-> Join(steps \o
              << <<"Step 3: |sinθ₂| = ", Show(Abs(sin_theta2)),
                   " > 1 → Total Internal Reflection">>,
                 <<"Step 4: Critical Angle = arcsin(n₂/n₁) = ",
                   Show(n2), Show(n1), Show(critical_angle)>> >>),
          Answer |-> <<"Total Internal Reflection occurs", "\n",
                       "Critical Angle: ">>
                     \o Format6(critical_angle) \o <<"°">>,
          animationData |->
              [type |-> "tir", n1 |-> n1, n2 |-> n2, theta1 |-> theta1,
               critical_angle |-> critical_angle]]

\* the return of the normal-refraction branch
RefractionRecord(n1, n2, theta1, steps, sin_theta2, theta2) ==
    [Detected |-> "Refraction Problem",
     Given |-> SnellGiven(n1, n2, theta1),
     Formula |-> "Snell's Law: n₁ × sinθ₁ = n₂ × sinθ₂",
     Steps |-> Join(steps \o
         << <<"Step 3: θ₂ = arcsin", Show(sin_theta2), Show(theta2)>> >>),
     Answer |-> <<"θ₂", " = ">> \o Format6(theta2) \o <<"°">>,
     animationData |->
         [type |-> "refraction", n1 |-> n1, n2 |-> n2, theta1 |-> theta1,
          theta2 |-> theta2]]

\* calculate_snell from the branch on
SnellBranch(n1, n2, theta1, steps, sin_theta2) ==
    IF IsTIR(sin_theta2)
    THEN TirRecord(n1, n2, theta1, steps, sin_theta2,
                   AsinDegrees(CriticalRatio(n1, n2)))
    ELSE RefractionRecord(n1, n2, theta1, steps, sin_theta2,
                          Degrees(ASin(sin_theta2)))

\* calculate_snell once n1 / n2 (ratio) and sin_theta1 are computed
SnellSines(n1, n2, theta1, ratio, sin_theta1) ==
    IF IsFault(ratio) THEN ratio
    ELSE SnellBranch(n1, n2, theta1,
             SnellSteps(n1, n2, theta1, ratio, sin_theta1,
                        FMul(ToFixed(ratio), sin_theta1)),
             FMul(ToFixed(ratio), sin_theta1))

\* calculate_snell(n1, n2, theta1): the solution record, or the exception
\* the body raises
calculate_snell(n1, n2, theta1) ==
    IF ~IsNum(theta1) THEN Fault("TypeError")
    ELSE SnellSines(n1, n2, theta1, Div(n1, n2), Sin(Radians(theta1)))

\* Python truth value of an argument: None, zero and the empty str are false
Truthy(v) ==
    IF v = None THEN FALSE
    ELSE IF IsNum(v) THEN v.n # 0
    ELSE IF IsStr(v) THEN v.str # <<>>
    ELSE TRUE

\* {v or "?"} in the Given summary
OrQuestion(v) == IF Truthy(v) THEN Show(v) ELSE "?"

\* f'f = {f or "?"}, do = {do or "?"}, di = {di or "?"}'
LensGiven(f, do, di) ==
    <<"f = ", OrQuestion(f), ", do = ", OrQuestion(do),
      ", di = ", OrQuestion(di)>>

\* the count of the true values: sum(1 for val in [f, do, di] if val)
Provided_truthy(f, do, di) ==
    Cardinality({i \in 1..3 : Truthy(<<f, do, di>>[i])})

\* sum(1 for val in [f, do, di] if val is not None)
Provided(f, do, di) == Cardinality({i \in 1..3 : <<f, do, di>>[i] # None})

\* 1 / x
Reciprocal(x) == Div(Num(1), x)

\* the right-hand side for di and for do with + for -
DistanceRhs_sum(a, b) == Add(Reciprocal(a), Reciprocal(b))

\* (1/a) - (1/b): the right-hand side for di and for do
DistanceRhs(a, b) == Sub(Reciprocal(a), Reciprocal(b))

\* (1/do) + (1/di): the right-hand side for f
FocalRhs(do, di) == Add(Reciprocal(do), Reciprocal(di))

\* the three derivation lines of a branch that solves for find from a and b
LensSteps(find, a, b, rhs, value) ==
    << <<"Step 1: 1/", find, " = ", Show(a), Show(b)>>,
       <<"Step 2: 1/", find, " = ", Show(Reciprocal(a)), Show(Reciprocal(b)),
         Show(rhs)>>,
       <<"Step 3: ", find, " = 1 / ", Show(rhs), Show(value), " cm">> >>

\* the return of calculate_lens after a branch has solved for find
LensRecord(f, do, di, find, steps, value, animation_data) ==
    IF IsFault(value) THEN value
    ELSE [Detected |-> "Lens Problem",
          Given |-> LensGiven(f, do, di),
          Formula |-> "Thin Lens Equation: 1/f = 1/do + 1/di",
          Steps |-> Join(steps),
          Answer |-> <<find, " = ">> \o Format6(value) \o <<" cm">>,
          animationData |-> animation_data]

\* the branch of calculate_lens for f and do
SolveDi(f, do, di, di_calc) ==
    LensRecord(f, do, di, "di",
        LensSteps("di", f, do, DistanceRhs(f, do), di_calc), di_calc,
        [type |-> "lens", f |-> f, do |-> do, di |-> di_calc])

\* the branch of calculate_lens for f and di
SolveDo(f, do, di, do_calc) ==
    LensRecord(f, do, di, "do",
        LensSteps("do", f, di, DistanceRhs(f, di), do_calc), do_calc,
        [type |-> "lens", f |-> f, do |-> do_calc, di |-> di])

\* the branch of calculate_lens for do and di
SolveF(f, do, di, f_calc) ==
    LensRecord(f, do, di, "f",
        LensSteps("f", do, di, FocalRhs(do, di), f_calc), f_calc,
        [type |-> "lens", f |-> f_calc, do |-> do, di |-> di])

\* the early return of calculate_lens
InsufficientData(f, do, di) ==
    [Detected |-> "Lens Problem",
     Given |-> LensGiven(f, do, di),
     Formula |-> "1/f = 1/do + 1/di",
     Steps |-> <<"Error: Please provide exactly two of the three values">>,
     Answer |-> <<"Insufficient data provided">>]

\* calculate_lens(f, do, di): the solution record, or the exception the body
\* raises
calculate_lens(f, do, di) ==
    IF Provided(f, do, di) # 2 THEN InsufficientData(f, do, di)
    ELSE IF f # None /\ do # None /\ di = None
    THEN SolveDi(f, do, di, Reciprocal(DistanceRhs(f, do)))
    ELSE IF f # None /\ di # None /\ do = None
    THEN SolveDo(f, do, di, Reciprocal(DistanceRhs(f, di)))
    ELSE IF do # None /\ di # None /\ f = None
    THEN SolveF(f, do, di, Reciprocal(FocalRhs(do, di)))
    ELSE Fault("TypeError")

----------------------------------------------------------------------------
(* The request handlers *)

\* request.get_json() raised: the request has no JSON body
NoJson == [nojson |-> TRUE]

\* a JSON object, as the dict of its keys
Dict(f) == [dict |-> f]

IsDict(v) == "dict" \in DOMAIN v

\* data.get(key, default)
Get(data, key, default) ==
    IF key \in DOMAIN data.dict THEN data.dict[key] ELSE default

\* the characters of the words the program looks for
W_refract == <<"r", "e", "f", "r", "a", "c", "t">>
W_snell == <<"s", "n", "e", "l", "l">>
W_angle == <<"a", "n", "g", "l", "e">>
W_n1 == <<"n", "1">>
W_n2 == <<"n", "2">>
W_theta1 == <<"t", "h", "e", "t", "a", "1">>
W_theta1_sym == <<"θ", "1">>
W_lens == <<"l", "e", "n", "s">>
W_focal == <<"f", "o", "c", "a", "l">>
W_object == <<"o", "b", "j", "e", "c", "t">>
W_image == <<"i", "m", "a", "g", "e">>
W_f == <<"f">>
W_do == <<"d", "o">>
W_di == <<"d", "i">>

RefractionWords == {W_refract, W_snell, W_angle, W_n1, W_n2}

LensWords == {W_lens, W_focal, W_object, W_image}

\* the regular expressions of the parameter extraction, by parameter
Patterns ==
    [n1 |-> {W_n1}, n2 |-> {W_n2},
     theta1 |-> {W_theta1, W_theta1_sym, W_angle},
     f |-> {W_f}, do |-> {W_do}, di |-> {W_di}]

\* params: the dict of the parameters whose pattern matches in the text
ExtractParams(problem_text) ==
    Dict([k \in {p \in DOMAIN Patterns : Search(problem_text, Patterns[p]) # <<>>}
            |-> float(Search(problem_text, Patterns[k]))])

\* any(word in problem_text for word in words)
AnyWord(problem_text, words) == \E w \in words : Contains(problem_text, w)

\* the classifier with the lens words tested first
Classify_lens_first(problem_text) ==
    IF AnyWord(problem_text, LensWords) THEN "lens"
    ELSE IF AnyWord(problem_text, RefractionWords) THEN "refraction"
    ELSE "unrecognized"

\* the classes of the classifier, in the order it tests them
Classify(problem_text) ==
    IF AnyWord(problem_text, RefractionWords) THEN "refraction"
    ELSE IF AnyWord(problem_text, LensWords) THEN "lens"
    ELSE "unrecognized"

Unrecognized ==
    [Detected |-> "Optical Problem",
     Given |-> <<"Could not identify specific problem type">>,
     Formula |-> "Please include keywords like: refraction, lens, focal, angle",
     Steps |-> <<"Try rephrasing with specific optical terms">>,
     Answer |-> <<"Unable to analyze - please provide more context">>]

\* the record of the except clause of analyze_problem
ErrorRecord(e) ==
    [error |-> e,
     Detected |-> "Error",
     Given |-> <<"Problem parsing failed">>,
     Formula |-> "N/A",
     Steps |-> <<"Error: ", e>>,
     Answer |-> <<"Calculation failed">>]

\* a call of a solver and what it returned or raised
Call(fn, args, ret) == [fn |-> fn, args |-> args, ret |-> ret]

\* the array without the except clause: whatever the solver gave
Results_uncaught(ret) == <<ret>>

\* the array analyze_problem answers with once the solver has returned or
\* raised: results with the record appended, or the except clause's array
Results(ret) == IF IsFault(ret) THEN <<ErrorRecord(ret.fault)>> ELSE <<ret>>

\* analyze_problem from the call of the solver fn on
Solved(fn, args, ret) ==
    [response |-> Results(ret), call |-> Call(fn, args, ret)]

\* the refraction branch of analyze_problem
SolveRefraction(n1, n2, theta1) ==
    Solved("calculate_snell", <<n1, n2, theta1>>, calculate_snell(n1, n2, theta1))

\* the lens branch of analyze_problem
SolveLens(f, do, di) ==
    Solved("calculate_lens", <<f, do, di>>, calculate_lens(f, do, di))

\* analyze_problem from the classification on
Dispatch(class, params) ==
    CASE class = "refraction" ->
             SolveRefraction(Get(params, "n1", Num(1)),
                             Get(params, "n2", Rat(3, 2)),
                             Get(params, "theta1", Num(30)))
      [] class = "lens" ->
             SolveLens(Get(params, "f", None), Get(params, "do", None),
                       Get(params, "di", None))
      [] OTHER -> [response |-> <<Unrecognized>>, call |-> None]

\* analyze_problem on a request body: the JSON array it answers with and the
\* solver call it made (None when it made none)
Analyze(body) ==
    IF body = NoJson
    THEN [response |-> <<ErrorRecord("BadRequest")>>, call |-> None]
    ELSE IF ~IsDict(body) \/ ~IsStr(Get(body, "problem", Str(<<>>)))
    THEN [response |-> <<ErrorRecord("AttributeError")>>, call |-> None]
    ELSE Dispatch(Classify(lower(Get(body, "problem", Str(<<>>)).str)),
                  ExtractParams(lower(Get(body, "problem", Str(<<>>)).str)))

\* re.search(r'[\d.]+', answer).group()
FirstNumber(answer) == SearchRun(answer, DigitSet \cup {"."}).group

\* exact_value of calculate in mode 'snell': a number, or the answer (a str)
SnellExactValue(answer) ==
    IF Contains(answer, <<"θ₂">>) THEN float(FirstNumber(answer))
    ELSE Str(answer)

\* re.search(r'[\d.-]+', answer)
FirstSignedNumber(answer) == SearchRun(answer, DigitSet \cup {".", "-"})

\* exact_value of calculate in mode 'lens'
LensExactValue(answer) ==
    IF FirstSignedNumber(answer) # None
    THEN float(FirstSignedNumber(answer).group)
    ELSE None

\* the JSON object calculate answers with for the record result
Calculated(result, exact_value) ==
    IF IsFault(exact_value) THEN [error |-> exact_value.fault]
    ELSE [result |-> result.Answer,
          calculation_steps |-> Split(result.Steps),
          exact_value |-> exact_value,
          animation_data |->
              IF "animationData" \in DOMAIN result THEN result.animationData
              ELSE <<>>]

\* mode 'snell' of calculate from the call of the solver on
SnellResponse(args, result) ==
    [response |->
         IF IsFault(result) THEN [error |-> result.fault]
         ELSE Calculated(result, SnellExactValue(result.Answer)),
     call |-> Call("calculate_snell", args, result)]

\* mode 'lens' of calculate from the call of the solver on
LensResponse(args, result) ==
    [response |->
         IF IsFault(result) THEN [error |-> result.fault]
         ELSE Calculated(result, LensExactValue(result.Answer)),
     call |-> Call("calculate_lens", args, result)]

\* mode 'snell' of calculate
CalculateSnell(n1, n2, theta1) ==
    SnellResponse(<<n1, n2, theta1>>, calculate_snell(n1, n2, theta1))

\* mode 'lens' of calculate
CalculateLens(f, do, di) ==
    LensResponse(<<f, do, di>>, calculate_lens(f, do, di))

\* calculate on a request body: the JSON object it answers with and the
\* solver call it made (None when it made none)
Calculate(body) ==
    IF body = NoJson THEN [response |-> [error |-> "BadRequest"], call |-> None]
    ELSE IF ~IsDict(body)
    THEN [response |-> [error |-> "AttributeError"], call |-> None]
    ELSE IF Get(body, "mode", None) = Str(W_snell)
    THEN CalculateSnell(Get(body, "n1", Num(1)),
                        Get(body, "n2", Rat(3, 2)),
                        Get(body, "theta1", Num(0)))
    ELSE IF Get(body, "mode", None) = Str(W_lens)
    THEN CalculateLens(Get(body, "f", None), Get(body, "do", None),
                       Get(body, "di", None))
    ELSE [response |-> [error |-> "Invalid mode"], call |-> None]

----------------------------------------------------------------------------
(* Requests *)

\* refractive indices are the halves up to MaxN / 2, of either sign
MaxN == 3

\* angles are the multiples of 30 degrees up to 30 * MaxTheta, of either sign
MaxTheta == 3

\* lens distances are the multiples of 5 cm up to 5 * MaxD, of either sign
MaxD == 3

\* a free-text problem is made of at most MaxFrags fragments
MaxFrags == 2

\* a JSON string that is no number
Abc == Str(<<"a", "b", "c">>)

\* what a JSON object may hold for a numeric field besides a number: nothing
\* (the key is absent), null, a string
Absent == [absent |-> TRUE]

Malformed == {None, Abc}

IndexValues == {Rat(k, 2) : k \in -MaxN..MaxN}

AngleValues == {Num(30 * k) : k \in -MaxTheta..MaxTheta}

DistanceValues == {Num(5 * k) : k \in -MaxD..MaxD}

\* the JSON object with the fields of flds that are not absent
Object(flds) == Dict([k \in {j \in DOMAIN flds : flds[j] # Absent} |-> flds[k]])

SnellBodies ==
    {Object([mode |-> Str(W_snell), n1 |-> a, n2 |-> b, theta1 |-> t]) :
        a \in IndexValues \cup Malformed \cup {Absent},
        b \in IndexValues \cup Malformed \cup {Absent},
        t \in AngleValues \cup Malformed \cup {Absent}}

LensBodies ==
    {Object([mode |-> Str(W_lens), f |-> a, do |-> b, di |-> c]) :
        a \in DistanceValues \cup Malformed \cup {Absent},
        b \in DistanceValues \cup Malformed \cup {Absent},
        c \in DistanceValues \cup Malformed \cup {Absent}}

\* bodies calculate answers without calling a solver
OtherBodies ==
    {NoJson, None, Object([mode |-> Absent]), Object([mode |-> Abc]),
     Object([mode |-> None])}

\* the pieces free-text problems are made of
Fragments ==
    << <<"S", "n", "e", "l", "l", " ">>,
       <<"n", "1", "=", "2", " ">>,
       <<"n", "2", "=", "0", " ">>,
       <<"A", "n", "g", "l", "e", ":", " ", "9", "0", " ">>,
       <<"l", "e", "n", "s", " ", "f", "=", "1", "0", " ">>,
       <<"d", "o", "=", "1", "0", " ">>,
       <<"d", "o", " ", "=", " ", "3", "0", " ">>,
       <<"I", "m", "a", "g", "e", " ", "d", "i", "=", "1", "5", ".", " ">>,
       <<"h", "e", "l", "l", "o", " ">>,
       <<"f", "=", "0", " ", "o", "b", "j", "e", "c", "t", " ">> >>

RECURSIVE Concat(_)
Concat(ix) == IF ix = <<>> THEN <<>> ELSE Fragments[Head(ix)] \o Concat(Tail(ix))

Texts ==
    {Concat(ix) : ix \in UNION {[1..k -> 1..Len(Fragments)] : k \in 0..MaxFrags}}

AnalyzeBodies ==
    {NoJson, None, Object([problem |-> Absent]), Object([problem |-> Num(5)])}
        \cup {Object([problem |-> Str(t)]) : t \in Texts}

----------------------------------------------------------------------------
(* The server: one request at a time is received, handled and answered *)

Init ==
    /\ pc = "idle"
    /\ request = None
    /\ response = None
    /\ call = None

\* POST /analyze arrives
ReceiveAnalyze ==
    /\ pc = "idle"
    /\ \E body \in AnalyzeBodies :
           request' = [route |-> "/analyze", body |-> body]
    /\ pc' = "handling"
    /\ UNCHANGED <<response, call>>

\* POST /calculate arrives
ReceiveCalculate ==
    /\ pc = "idle"
    /\ \E body \in SnellBodies \cup LensBodies \cup OtherBodies :
           request' = [route |-> "/calculate", body |-> body]
    /\ pc' = "handling"
    /\ UNCHANGED <<response, call>>

\* the handler of /analyze runs
analyze_problem ==
    /\ pc = "handling"
    /\ request.route = "/analyze"
    /\ LET out == Analyze(request.body)
       IN  /\ response' = out.response
           /\ call' = out.call
    /\ pc' = "done"
    /\ UNCHANGED request

\* the handler of /calculate runs
calculate ==
    /\ pc = "handling"
    /\ request.route = "/calculate"
    /\ LET out == Calculate(request.body)
       IN  /\ response' = out.response
           /\ call' = out.call
    /\ pc' = "done"
    /\ UNCHANGED request

\* the response is sent; nothing of the request is kept
Reply ==
    /\ pc = "done"
    /\ pc' = "idle"
    /\ request' = None
    /\ response' = None
    /\ call' = None

Next ==
    \/ ReceiveAnalyze
    \/ ReceiveCalculate
    \/ analyze_problem
    \/ calculate
    \/ Reply

Spec == Init /\ [][Next]_vars
----------------------------------------------------------------------------
(* Properties *)

\* 10^-6 in fixed point: how close two computed sines have to be
Tol == ONE \div 1000000

Close(x, y) == Abs(x - y) <= Tol

\* a handler has just run and made its one call of the solver fn
Called(fn) == pc = "done" /\ call # None /\ call.fn = fn

\* calculate_snell was called with three numbers, n2 not zero
SnellNumeric ==
    /\ Called("calculate_snell")
    /\ \A i \in 1..3 : IsNum(call.args[i])
    /\ call.args[2].n # 0

\* a / b for rationals, b not zero
Quotient(a, b) == Rat(a.n * b.d, a.d * b.n)

\* (n1/n2) * sin(theta1) of the call
CallSinTheta2 ==
    FMul(ToFixed(Quotient(call.args[1], call.args[2])),
         Sin(Radians(call.args[3])))

\* C1: for numbers n1, n2, theta1 with n2 not zero, calculate_snell returns
\* the total-internal-reflection record (animation tag tir, with
\* sin(critical_angle) = n2/n1) exactly when |(n1/n2) sin(theta1)| > 1, and
\* otherwise the refraction record (tag refraction, with
\* n1 sin(theta1) = n2 sin(theta2)); |sin(theta2)| = 1 is refraction
C1_SnellBranches ==
    SnellNumeric =>
        /\ ~IsFault(call.ret)
        /\ IF Abs(CallSinTheta2) > ONE
           THEN /\ call.ret.Detected =
                       "Refraction Problem - Total Internal Reflection"
                /\ call.ret.animationData.type = "tir"
                /\ Close(Sin(Radians(call.ret.animationData.critical_angle)),
                         ToFixed(Quotient(call.args[2], call.args[1])))
           ELSE /\ call.ret.Detected = "Refraction Problem"
                /\ call.ret.animationData.type = "refraction"
                /\ Close(FMul(ToFixed(call.args[1]), Sin(Radians(call.args[3]))),
                         FMul(ToFixed(call.args[2]),
                              Sin(Radians(call.ret.animationData.theta2))))

\* C1's case: a call on the boundary |sin(theta2)| = 1, answered as refraction
C1_BoundaryIsRefraction ==
    /\ SnellNumeric
    /\ Abs(CallSinTheta2) = ONE
    /\ ~IsFault(call.ret)
    /\ call.ret.animationData.type = "refraction"

\* calculate_lens was called with exactly two of f, do, di present
LensTwoPresent ==
    /\ Called("calculate_lens")
    /\ Cardinality({i \in 1..3 : call.args[i] # None}) = 2

LensNames == <<"f", "do", "di">>

\* the animation triple <<f, do, di>> of the record the call returned
Triple == <<call.ret.animationData.f, call.ret.animationData.do,
            call.ret.animationData.di>>

\* the argument of the call that is absent, when exactly one is
Missing == CHOOSE i \in 1..3 : call.args[i] = None

\* 1/f = 1/do + 1/di for rationals, none of them zero
ThinLens(f, do, di) ==
    /\ f.n # 0 /\ do.n # 0 /\ di.n # 0
    /\ f.d * do.n * di.n = f.n * (do.d * di.n + di.d * do.n)

\* C2: a call of calculate_lens with exactly two of f, do, di that does not
\* fault returns an animation triple that keeps the two given values, fills
\* in the third, and satisfies 1/f = 1/do + 1/di; the Answer names the
\* variable that was missing
C2_ThinLensIdentity ==
    LensTwoPresent /\ ~IsFault(call.ret) =>
        /\ \A i \in 1..3 : call.args[i] # None => Triple[i] = call.args[i]
        /\ \A i \in 1..3 : IsNum(Triple[i])
        /\ ThinLens(Triple[1], Triple[2], Triple[3])
        /\ call.ret.Answer[1] = LensNames[Missing]

\* C2's case: a call with two values present has returned a record
C2_Solved ==
    /\ LensTwoPresent
    /\ ~IsFault(call.ret)
    /\ call.args[2] = None
    /\ IsNum(call.ret.animationData.do)

\* C3: with 0, 1 or 3 of f, do, di present, whatever the present values,
\* calculate_lens returns the insufficient-data record (no animation
\* payload) and raises nothing
C3_InsufficientData ==
    Called("calculate_lens") /\ ~LensTwoPresent =>
        /\ ~IsFault(call.ret)
        /\ call.ret.Detected = "Lens Problem"
        /\ call.ret.Steps =
               <<"Error: Please provide exactly two of the three values">>
        /\ call.ret.Answer = <<"Insufficient data provided">>
        /\ "animationData" \notin DOMAIN call.ret

\* C3's case: three values present, one of them zero, and the
\* insufficient-data record returned
C3_ThreeWithZero ==
    /\ Called("calculate_lens")
    /\ \A i \in 1..3 : call.args[i] # None
    /\ \E i \in 1..3 : call.args[i] = Num(0)
    /\ ~IsFault(call.ret)
    /\ call.ret.Answer = <<"Insufficient data provided">>

\* analyze_problem has answered a request whose body is an object with a
\* string (or no) problem
AnalyzedText ==
    /\ pc = "done"
    /\ request.route = "/analyze"
    /\ IsDict(request.body)
    /\ IsStr(Get(request.body, "problem", Str(<<>>)))

\* the lower-cased text of the request
RequestText == lower(Get(request.body, "problem", Str(<<>>)).str)

HasRefractionWord ==
    \E w \in {W_refract, W_snell, W_angle, W_n1, W_n2} : Contains(RequestText, w)

HasLensWord ==
    \E w \in {W_lens, W_focal, W_object, W_image} : Contains(RequestText, w)

\* C4: on the lower-cased text, a refraction word (refract, snell, angle,
\* n1, n2) sends the request to the Snell solver, lens words or not;
\* otherwise a lens word (lens, focal, object, image) sends it to the lens
\* solver; otherwise the fixed unrecognized record is the answer and no
\* solver is called
C4_DecisionList ==
    AnalyzedText =>
        IF HasRefractionWord
        THEN call # None /\ call.fn = "calculate_snell"
        ELSE IF HasLensWord
        THEN call # None /\ call.fn = "calculate_lens"
        ELSE /\ call = None
             /\ Len(response) = 1
             /\ response[1].Detected = "Optical Problem"
             /\ response[1].Answer =
                    <<"Unable to analyze - please provide more context">>

\* C4's case: a text with a refraction word and a lens word went to the
\* Snell solver
C4_BothGoesToSnell ==
    /\ AnalyzedText
    /\ HasRefractionWord
    /\ HasLensWord
    /\ call # None
    /\ call.fn = "calculate_snell"

\* the denominator of the branch the call selects is zero: do = f for di,
\* di = f for do, do = -di for f
ZeroDenominator ==
    /\ LensTwoPresent
    /\ \A i \in 1..3 : call.args[i] # None => IsNum(call.args[i])
    /\ \/ call.args[3] = None /\ call.args[2] = call.args[1]
       \/ call.args[2] = None /\ call.args[3] = call.args[1]
       \/ /\ call.args[1] = None
          /\ call.args[2].n = -call.args[3].n
          /\ call.args[2].d = call.args[3].d

\* the response of the handler is the error response, with no solution
ErrorResponse ==
    IF request.route = "/calculate" THEN DOMAIN response = {"error"}
    ELSE /\ Len(response) = 1
         /\ "error" \in DOMAIN response[1]
         /\ "animationData" \notin DOMAIN response[1]

\* C5: calculate_lens with two values present and a zero denominator in the
\* selected branch ends in a division fault and returns no record
C5_DivisionFault ==
    ZeroDenominator =>
        /\ call.ret = Fault("ZeroDivisionError")
        /\ ErrorResponse

\* C5's case: the object at the focal point, do = f, neither zero
C5_ObjectAtFocus ==
    /\ ZeroDenominator
    /\ call.args[3] = None
    /\ call.args[1].n # 0
    /\ IsFault(call.ret)

\* something in analyze_problem raised: get_json, data.get, .lower() or the
\* solver
AnalyzeFaulted ==
    \/ request.body = NoJson
    \/ ~IsDict(request.body)
    \/ ~IsStr(Get(request.body, "problem", Str(<<>>)))
    \/ call # None /\ IsFault(call.ret)

\* C6: a free-text request is answered with an array of exactly one record:
\* the solver's (or the unrecognized) record without an error field when
\* nothing faults, and otherwise one record with an error field, Detected
\* 'Error' and Answer 'Calculation failed', and nothing of the solver
C6_OneRecord ==
    pc = "done" /\ request.route = "/analyze" =>
        /\ Len(response) = 1
        /\ IF AnalyzeFaulted
           THEN /\ "error" \in DOMAIN response[1]
                /\ response[1].Detected = "Error"
                /\ response[1].Answer = <<"Calculation failed">>
                /\ "animationData" \notin DOMAIN response[1]
           ELSE /\ "error" \notin DOMAIN response[1]
                /\ "Detected" \in DOMAIN response[1]
                /\ call # None => response[1] = call.ret

\* C6's case: the solver divided by zero and the answer is the one error
\* record
C6_SolverFault ==
    /\ pc = "done"
    /\ request.route = "/analyze"
    /\ call # None
    /\ call.ret = Fault("ZeroDivisionError")
    /\ response[1].error = "ZeroDivisionError"

\* calculate has answered a request of the given mode
Calculated_mode(mode) ==
    /\ pc = "done"
    /\ request.route = "/calculate"
    /\ IsDict(request.body)
    /\ Get(request.body, "mode", None) = Str(mode)

\* the field is missing or malformed in the request
MissingOrMalformed(key) ==
    \/ key \notin DOMAIN request.body.dict
    \/ request.body.dict[key] \in Malformed

SnellKeys == <<"n1", "n2", "theta1">>

SnellDefaults == <<Num(1), Rat(3, 2), Num(0)>>

LensKeys == <<"f", "do", "di">>

\* C7: in mode 'snell' a field that is missing or malformed (null, a
\* string) is replaced by its default (n1 = 1.0, n2 = 1.5, theta1 = 0.0) and
\* the answer is a result, not an error; in mode 'lens' an absent or null
\* field reaches the solver as not provided
C7_MalformedFallsBack ==
    /\ Calculated_mode(W_snell) =>
           /\ \A i \in 1..3 : MissingOrMalformed(SnellKeys[i])
                  => call.args[i] = SnellDefaults[i]
           /\ (\A i \in 1..3 : MissingOrMalformed(SnellKeys[i]))
                  => "error" \notin DOMAIN response
    /\ Calculated_mode(W_lens) =>
           \A i \in 1..3 :
               (\/ LensKeys[i] \notin DOMAIN request.body.dict
                \/ request.body.dict[LensKeys[i]] = None)
                   => call.args[i] = None

\* r rounded to six decimals, with its sign
Rounded6(r) == Rat(Sign(r.n) * Micro(r), 1000000)

\* C8: exact_value is the number of the answer: in mode 'snell' theta2 to
\* six decimals with its sign (the answer itself for total internal
\* reflection), in mode 'lens' the signed solved value, null for the
\* insufficient-data answer
C8_ExactValue ==
    /\ Calculated_mode(W_snell) /\ "exact_value" \in DOMAIN response =>
           IF response.animation_data.type = "refraction"
           THEN response.exact_value = Rounded6(response.animation_data.theta2)
           ELSE response.exact_value = Str(response.result)
    /\ Calculated_mode(W_lens) /\ "exact_value" \in DOMAIN response =>
           IF LensTwoPresent
           THEN response.exact_value = Rounded6(Triple[Missing])
           ELSE response.exact_value = None

\* C9: the Given summary of a record of calculate_lens shows '?' for an
\* input exactly when the input is absent; a present zero is shown as a
\* number
C9_QuestionMarkIffAbsent ==
    Called("calculate_lens") /\ ~IsFault(call.ret) =>
        \A i \in 1..3 : (call.ret.Given[2 * i] = "?") <=> (call.args[i] = None)

\* C10: in the total-internal-reflection branch (n1, n2 not zero)
\* |n2/n1| < 1, so the arcsine of the critical angle is in its domain and
\* the branch returns a record
C10_CriticalAngleInDomain ==
    SnellNumeric /\ call.args[1].n # 0 /\ Abs(CallSinTheta2) > ONE =>
        /\ Abs(call.args[2].n) * call.args[1].d
               < Abs(call.args[1].n) * call.args[2].d
        /\ InAsinDomain(ToFixed(Quotient(call.args[2], call.args[1])))
        /\ ~IsFault(call.ret)
        /\ call.ret.animationData.type = "tir"

\* C10's case: the total-internal-reflection branch was taken
C10_TirTaken ==
    /\ SnellNumeric
    /\ Abs(CallSinTheta2) > ONE
    /\ ~IsFault(call.ret)
    /\ call.ret.animationData.type = "tir"

====
